---------------------------- MODULE Spec2Model ----------------------------
(***************************************************************************)
(* A model of the scheduling core of ok-oldking/autohelper:                *)
(*   ok/task/TaskExecutor.py  (the executor thread: execute, next_frame,   *)
(*                             sleep, wait_condition, detect_scene,        *)
(*                             pause, start, stop)                         *)
(*   ok/task/BaseTask.py      (the task flags: enable, disable, set_done,  *)
(*                             pause, unpause, info_set, get_status)       *)
(*                                                                         *)
(* Two threads are modelled.  The executor thread runs execute() and,      *)
(* synchronously inside it, every run_frame(); its position is (pc, stack).*)
(* A caller thread (the GUI) invokes the public methods of the tasks and   *)
(* of the executor.  A step of either thread makes at most one access to   *)
(* a field that the other thread or the environment writes or observes:    *)
(* a test of two fields is two steps, a method that writes two fields is   *)
(* two steps, and `x += e` is a read of x, the evaluation of e and a write.*)
(*                                                                         *)
(* The clock `now` counts ticks of 0.5 s.  A delay below one tick          *)
(* (sleep(0.001), sleep(0.01)) is a delay of 0 ticks: the poll loop of     *)
(* sleep() is still run, it just needs no Tick to expire.                  *)
(***************************************************************************)
EXTENDS Integers, Sequences, FiniteSets, TLC

\* ---------------------------------------------------------------- bounds
NumTasks == 2
NumScenes == 2
MaxTime == 4
MaxErrors == 2
MaxAttempts == 3
MaxSleep == 2
MaxTimeOut == 1
\* the clock of the slice of stop() runs as far as the longest sleep of a task
StopHorizon == 2
\* the longest time between the import of TaskExecutor.py and the
\* construction (and the first start()) of the executor
MaxLag == 1
\* constructor arguments of TaskExecutor (TaskExecutor.py:29), in ticks
WaitSceneTimeout == 1
WaitUntilBeforeDelay == 1
WaitUntilCheckDelay == 1

\* ------------------------------------------------------ program constants
\* `processing_time > 0.5` (TaskExecutor.py:185): 0.5 s is one tick
FreshThreshold == 1
\* sleep(0.001) of next_frame and execute, sleep(0.01) of wait_condition
PollDelay == 0

Tasks == 1..NumTasks
Scenes == 1..NumScenes
\* None, as a task or scene reference
NoTask == 0
NoScene == 0
\* a frame is the set of the scenes whose detect(frame) is true;
\* NoFrame stands for _frame = None
NoFrame == {0}
Frames == SUBSET Scenes
\* the results a condition() can give: 0 is falsy (None, False, []), the
\* others are truthy and distinguishable
Falsy == 0
CondResults == {0, 1, 2}
\* a scene type is the set of the scenes that are instances of it; NoType
\* stands for scene_type = None
NoType == {0}
SceneTypes == (SUBSET Scenes) \ {{}}
\* the condition of a wait_condition() that wait_scene() did not make
NotScene == {}
\* a task's info mapping: empty (NoInfo) or holding an entry
NoInfo == 0
HasInfo == 1

VARIABLES
    \* BaseTask fields, per task
    enabled, done, running, tpaused, error_count, info,
    \* TaskExecutor fields
    current_task, paused, pause_start, pause_end_time, exit_event,
    frame, current_scene, last_scene,
    \* the environment: the clock, interaction.should_capture()
    now, should_capture,
    \* the executor thread: position, return labels, locals of execute(),
    \* next_frame() and wait_condition()
    pc, stack, idx, start, nf_start, sl_task, sl_end,
    wc_scene, wc_arg, wc_timeout, wc_start, wc_pre, wc_post, wc_result, ret,
    \* the caller thread: the method it is in the middle of
    gpc,
    \* observers: calls of pre_action / post_action / condition() /
    \* scene.detect() made by the current wait_condition / detect_scene,
    \* and what the timing properties need to remember
    pre_count, post_count, cond_calls, wc_miss, last_cond,
    evaluated, cyc_scene, stale, sl_phase, sl_need

taskVars == <<enabled, done, running, tpaused, error_count, info>>
pauseVars == <<paused, pause_start, pause_end_time>>
sceneVars == <<frame, current_scene, last_scene>>
envVars == <<now, should_capture>>
ctlVars == <<pc, stack, idx, start, nf_start, sl_task, sl_end>>
wcVars == <<wc_scene, wc_arg, wc_timeout, wc_start, wc_pre, wc_post, wc_result, ret>>
wcObs == <<pre_count, post_count, cond_calls, wc_miss, last_cond>>
obsVars == <<evaluated, cyc_scene, stale>>
slObs == <<sl_phase, sl_need>>

vars == <<taskVars, current_task, pauseVars, exit_event, sceneVars, envVars,
          ctlVars, wcVars, gpc, wcObs, obsVars, slObs>>

\* ------------------------------------------------------------ call stack
SleepLabels == {"sl_loop", "sl_cur", "sl_chk", "sl_en", "sl_pause", "sl_cap",
                "sl_end", "sl_time"}
Idle == [op |-> "idle", t |-> NoTask]

\* return to the caller: the label on top of the stack
Return == /\ pc' = Head(stack)
          /\ stack' = Tail(stack)

\* the executor thread is inside some task's run_frame()
RunLabels == {"run", "run_wc", "run_disable", "run_setdone"}
InRunFrame == \/ pc \in RunLabels
              \/ /\ stack # <<>>
                 /\ stack[Len(stack)] \in RunLabels

\* --------------------------------------------------------- BaseTask.py
\* get_status(), BaseTask.py:33-42
get_status(t) ==
    IF running[t] THEN "Running"
    ELSE IF enabled[t]
         THEN IF tpaused[t] THEN "Paused" ELSE "In Queue"
         ELSE "Not Started"

\* ------------------------------------------------------ TaskExecutor.py
\* reset_scene(), TaskExecutor.py:153-156: the new (frame, current, last)
reset_scene == <<NoFrame, NoScene, current_scene>>

\* latest_scene(), TaskExecutor.py:207-208
latest_scene == IF current_scene # NoScene THEN current_scene ELSE last_scene

\* scene.detect(frame) for a scene of the catalogue
detect(s, f) == s \in f

\* a mutant of scan: every scene is evaluated and the last match wins
scan_Last(s, latest, f, seen) ==
    LET found == {x \in Scenes \ {latest} : x >= s /\ detect(x, f)} IN
    IF found = {} THEN <<NoScene, seen \cup (Scenes \ {latest})>>
    ELSE <<CHOOSE x \in found : \A y \in found : y <= x,
           seen \cup (Scenes \ {latest})>>

\* the scan of detect_scene(), TaskExecutor.py:217-224, from scene s on:
\* <<the scene found or NoScene, the scenes whose detect() was called>>
RECURSIVE scan(_, _, _, _)
scan(s, latest, f, seen) ==
    IF s > NumScenes THEN <<NoScene, seen>>
    ELSE IF s = latest THEN scan(s + 1, latest, f, seen)
    ELSE IF detect(s, f) THEN <<s, seen \cup {s}>>
    ELSE scan(s + 1, latest, f, seen \cup {s})

\* detect_scene(), TaskExecutor.py:210-228, with no type filter:
\* <<the new current_scene (also the value returned), the scenes evaluated>>
detect_scene ==
    LET latest == latest_scene IN
    IF latest # NoScene /\ detect(latest, frame)
    THEN <<latest, {latest}>>
    ELSE scan(1, latest, frame,
              IF latest # NoScene THEN {latest} ELSE {})

\* the scan of detect_scene(scene_type), TaskExecutor.py:217-224, from
\* scene s on: a scene that is not an instance of scene_type is passed over
RECURSIVE scan_type(_, _, _, _, _)
scan_type(s, latest, f, seen, scene_type) ==
    IF s > NumScenes THEN <<NoScene, seen>>
    ELSE IF scene_type # NoType /\ s \notin scene_type
         THEN scan_type(s + 1, latest, f, seen, scene_type)
    ELSE IF s = latest THEN scan_type(s + 1, latest, f, seen, scene_type)
    ELSE IF detect(s, f) THEN <<s, seen \cup {s}>>
    ELSE scan_type(s + 1, latest, f, seen \cup {s}, scene_type)

\* detect_scene(scene_type), TaskExecutor.py:210-228: the re-check of the
\* latest scene (lines 211-216) does not look at scene_type
detect_scene_type(scene_type) ==
    LET latest == latest_scene IN
    IF latest # NoScene /\ detect(latest, frame)
    THEN <<latest, {latest}>>
    ELSE scan_type(1, latest, frame,
                   IF latest # NoScene THEN {latest} ELSE {}, scene_type)

\* a mutant of TooLong: the threshold taken one tick too high
TooLong_Late(processing_time) == processing_time > FreshThreshold + 1

\* `processing_time > 0.5`, TaskExecutor.py:185
TooLong(processing_time) == processing_time > FreshThreshold

\* a mutant of ClearRunning: the flag is left set
ClearRunning_Skip(t) == running

\* `task.running = False`, TaskExecutor.py:182
ClearRunning(t) == [running EXCEPT ![t] = FALSE]

\* a mutant of EffectiveTimeout: a time_out of 0 is used as it is
EffectiveTimeout_Raw(time_out) == time_out

\* `if time_out == 0: time_out = self.wait_scene_timeout`,
\* TaskExecutor.py:130-131
EffectiveTimeout(time_out) ==
    IF time_out = 0 THEN WaitSceneTimeout ELSE time_out

\* a mutant of EnableStep: enable() sets and clears whatever the flag is
EnableStep_Always(t) == "enable_set"

\* `if not self._enabled:`, BaseTask.py:45: where enable() goes on
EnableStep(t) == IF ~enabled[t] THEN "enable_set" ELSE "enable2"

\* a mutant of TaskDone: the done flag is not looked at
TaskDone_Never(t) == FALSE

\* `task.done`, the first operand of the test of TaskExecutor.py:167
TaskDone(t) == done[t]

\* a mutant of Expired: the wake time is not looked at
Expired_Always(end) == TRUE

\* `to_sleep = self.pause_end_time - time.time(); if to_sleep <= 0`,
\* TaskExecutor.py:99-100, with the wake time that was read
Expired(end) == end - now <= 0

\* `self.pause_start - time.time()` added to the wake time that was read,
\* TaskExecutor.py:118
ShiftedEnd(end) == end + (pause_start - now)

\* ----------------------------------------------------------------- Init
\* error_count is not set by BaseTask.__init__; the scheduler only adds to
\* it (TaskExecutor.py:180).  It starts at 0, as the specification says.
InitialErrorCount == 0

\* the state with the tasks of E enabled and the executor paused or not.
\* pause_start and pause_end_time are class attributes, TaskExecutor.py:25-26:
\* they keep the clock of the import of the module, which is tick 0, and
\* __init__ does not set them; the executor is constructed up to MaxLag
\* ticks later.  An executor that is not paused has been through start(),
\* whose line 118 has subtracted the time since the import from
\* pause_end_time.
InitWith(E, p) ==
    /\ enabled = [t \in Tasks |-> t \in E]
    /\ done = [t \in Tasks |-> FALSE]
    /\ running = [t \in Tasks |-> FALSE]
    /\ tpaused = [t \in Tasks |-> FALSE]
    /\ error_count = [t \in Tasks |-> InitialErrorCount]
    /\ info = [t \in Tasks |-> NoInfo]
    /\ current_task = NoTask
    /\ paused = p
    /\ now \in 0..MaxLag
    /\ pause_start = 0
    /\ pause_end_time = IF p THEN 0 ELSE ShiftedEnd(0)
    /\ exit_event = FALSE
    /\ frame = NoFrame
    /\ current_scene = NoScene
    /\ last_scene = NoScene
    /\ should_capture = TRUE
    /\ pc = "ex_loop"
    /\ stack = <<>>
    /\ idx = 1
    /\ start = 0
    /\ nf_start = 0
    /\ sl_task = NoTask
    /\ sl_end = 0
    /\ wc_scene = NotScene
    /\ wc_arg = 0
    /\ wc_timeout = 0
    /\ wc_start = 0
    /\ wc_pre = FALSE
    /\ wc_post = FALSE
    /\ wc_result = Falsy
    /\ ret = Falsy
    /\ gpc = Idle
    /\ pre_count = 0
    /\ post_count = 0
    /\ cond_calls = 0
    /\ wc_miss = 0
    /\ last_cond = Falsy
    /\ evaluated = {}
    /\ cyc_scene = NoScene
    /\ stale = FALSE
    /\ sl_phase = "none"
    /\ sl_need = 0

\* the state after construction: BaseTask.__init__ (BaseTask.py:15-31), the
\* class attributes of TaskExecutor (TaskExecutor.py:19-26), set at the
\* import, and TaskExecutor.__init__ (lines 28-50), which starts the
\* executor thread
Init == InitWith({}, TRUE)

\* the state after the caller thread has called enable() on the tasks of E
\* and then start() (lines 118-119), before the executor thread has taken a
\* step
InitStarted(E) == InitWith(E, FALSE)


\* ------------------------------------------------- sleep(), lines 84-102
\* a call of sleep(timeout), lines 90-91: `time.time() + timeout` is
\* evaluated, sl_end keeps the sum; label is where the caller goes on when
\* sleep() returns
CallSleep(timeout, label) ==
    /\ sl_end' = now + timeout
    /\ stack' = <<label>> \o stack
    /\ pc' = "sl_set"

\* line 91: the sum is stored in self.pause_end_time
SlSet ==
    /\ pc = "sl_set"
    /\ pause_end_time' = sl_end
    /\ sl_end' = 0
    /\ pc' = "sl_loop"
    /\ sl_phase' = IF paused THEN "other" ELSE "run"
    /\ sl_need' = 0
    /\ UNCHANGED <<taskVars, current_task, paused, pause_start, exit_event,
                   sceneVars, envVars, stack, idx, start, nf_start, sl_task,
                   wcVars, gpc, wcObs, obsVars>>

\* what a step of the poll loop of sleep() leaves alone
SlFrame ==
    UNCHANGED <<taskVars, current_task, pauseVars, exit_event, sceneVars,
                envVars, idx, start, nf_start, wcVars, gpc, wcObs, obsVars>>

\* lines 93-95: the exit test; sl_phase keeps how a sleep() that returned
\* on the exit test found the current task
SlLoop ==
    /\ pc = "sl_loop"
    /\ IF exit_event
       THEN /\ Return
            /\ sl_phase' = IF current_task # NoTask /\ ~enabled[current_task]
                           THEN "exit_disabled"
                           ELSE "exit"
            /\ sl_need' = 0
       ELSE /\ pc' = "sl_cur"
            /\ UNCHANGED <<stack, slObs>>
    /\ UNCHANGED <<sl_task, sl_end>>
    /\ SlFrame

\* line 96, `self.current_task and ...`: the first read of current_task
SlCur ==
    /\ pc = "sl_cur"
    /\ pc' = IF current_task # NoTask THEN "sl_chk" ELSE "sl_pause"
    /\ UNCHANGED <<stack, slObs, sl_task, sl_end>>
    /\ SlFrame

\* line 96, `self.current_task.enabled`: the second read of current_task.
\* A disable() that cleared current_task since the first read makes it
\* None.enabled, an AttributeError that unwinds run_frame() to the handlers
\* of execute().
SlChk ==
    /\ pc = "sl_chk"
    /\ IF current_task = NoTask
       THEN /\ error_count[idx] < MaxErrors
            /\ pc' = "ex_fault"
            /\ stack' = <<>>
            /\ sl_phase' = "none"
            /\ sl_need' = 0
            /\ UNCHANGED sl_task
       ELSE /\ sl_task' = current_task
            /\ pc' = "sl_en"
            /\ UNCHANGED <<stack, slObs>>
    /\ UNCHANGED sl_end
    /\ SlFrame

\* lines 96-97, `.enabled` of the task that was read: a task found
\* disabled raises TaskDisabledException
SlEn ==
    /\ pc = "sl_en"
    /\ IF ~enabled[sl_task]
       THEN /\ pc' = "ex_disabled"
            /\ stack' = <<>>
            /\ sl_phase' = "none"
            /\ sl_need' = 0
       ELSE /\ pc' = "sl_pause"
            /\ UNCHANGED <<stack, slObs>>
    /\ sl_task' = NoTask
    /\ UNCHANGED sl_end
    /\ SlFrame

\* line 98, `self.paused`: paused, line 102 and the next poll
SlPause ==
    /\ pc = "sl_pause"
    /\ pc' = IF paused THEN "sl_loop" ELSE "sl_cap"
    /\ UNCHANGED <<stack, slObs, sl_task, sl_end>>
    /\ SlFrame

\* line 98, `self.interaction.should_capture()`: not permitted, line 102
\* and the next poll
SlCap ==
    /\ pc = "sl_cap"
    /\ pc' = IF should_capture THEN "sl_end" ELSE "sl_loop"
    /\ UNCHANGED <<stack, slObs, sl_task, sl_end>>
    /\ SlFrame

\* line 99, the read of self.pause_end_time
SlEnd ==
    /\ pc = "sl_end"
    /\ sl_end' = pause_end_time
    /\ pc' = "sl_time"
    /\ UNCHANGED <<stack, slObs, sl_task>>
    /\ SlFrame

\* lines 99-102, the read of the clock: return when the wake time that
\* was read has passed, else time.sleep(0.001) and the next poll
SlTime ==
    /\ pc = "sl_time"
    /\ IF Expired(sl_end)
       THEN /\ Return
            /\ sl_phase' = "none"
            /\ sl_need' = 0
       ELSE /\ pc' = "sl_loop"
            /\ UNCHANGED <<stack, slObs>>
    /\ sl_end' = 0
    /\ UNCHANGED sl_task
    /\ SlFrame

\* the poll loop of sleep()
Sleep ==
    \/ SlSet \/ SlLoop \/ SlCur \/ SlChk \/ SlEn \/ SlPause \/ SlCap \/ SlEnd \/ SlTime

\* -------------------------------------------- next_frame(), lines 60-75
\* lines 61-62: reset_scene(); start = time.time()
NfEntry ==
    /\ pc = "nf_entry"
    /\ frame' = reset_scene[1]
    /\ current_scene' = reset_scene[2]
    /\ last_scene' = reset_scene[3]
    /\ nf_start' = now
    /\ stale' = FALSE
    /\ pc' = "nf_loop"
    /\ UNCHANGED <<taskVars, current_task, pauseVars, exit_event, envVars,
                   stack, idx, start, sl_task, sl_end, wcVars, gpc, wcObs,
                   evaluated, cyc_scene, slObs>>

\* line 63 with the flag set: the loop ends and next_frame() returns None
NfExit ==
    /\ pc = "nf_loop"
    /\ exit_event
    /\ Return
    /\ UNCHANGED <<taskVars, current_task, pauseVars, exit_event, sceneVars,
                   envVars, idx, start, nf_start, sl_task, sl_end, wcVars, gpc, wcObs,
                   obsVars, slObs>>

\* line 63 with the flag not set: into the loop body
NfLoop ==
    /\ pc = "nf_loop"
    /\ ~exit_event
    /\ pc' = "nf_cap"
    /\ UNCHANGED <<taskVars, current_task, pauseVars, exit_event, sceneVars,
                   envVars, stack, idx, start, nf_start, sl_task, sl_end, wcVars, gpc, wcObs,
                   obsVars, slObs>>

\* lines 64-72: capture is permitted and get_frame() gives the frame f of
\* a positive size
NfGotFrame(f) ==
    /\ pc = "nf_cap"
    /\ should_capture
    /\ frame' = f
    /\ Return
    /\ UNCHANGED <<taskVars, current_task, pauseVars, exit_event,
                   current_scene, last_scene, envVars, idx, start, nf_start, sl_task, sl_end,
                   wcVars, gpc, wcObs, obsVars, slObs>>

\* lines 64-72: capture is permitted and get_frame() gives a frame of
\* height or width <= 0: _frame is set to None and None is returned at once
NfBadFrame ==
    /\ pc = "nf_cap"
    /\ should_capture
    /\ frame' = NoFrame
    /\ Return
    /\ UNCHANGED <<taskVars, current_task, pauseVars, exit_event,
                   current_scene, last_scene, envVars, idx, start, nf_start, sl_task, sl_end,
                   wcVars, gpc, wcObs, obsVars, slObs>>

\* lines 64-66, 73: capture is not permitted, or get_frame() gave None:
\* sleep(0.001)
NfNoFrame ==
    /\ pc = "nf_cap"
    /\ frame' = NoFrame
    /\ CallSleep(PollDelay, "nf_tick")
    /\ UNCHANGED <<taskVars, current_task, pauseVars, exit_event,
                   current_scene, last_scene, envVars, idx, start, nf_start,
                   sl_task, wcVars, gpc, wcObs, obsVars, slObs>>

\* lines 74-75: the timeout test after the sleep
NfTick ==
    /\ pc = "nf_tick"
    /\ IF now - nf_start > WaitSceneTimeout
       THEN Return
       ELSE /\ pc' = "nf_loop"
            /\ UNCHANGED stack
    /\ UNCHANGED <<taskVars, current_task, pauseVars, exit_event, sceneVars,
                   envVars, idx, start, nf_start, sl_task, sl_end, wcVars, gpc, wcObs,
                   obsVars, slObs>>

\* --------------------------------------- wait_condition(), lines 127-151
\* the locals and the observers of a wait_condition() that is over
WcReset ==
    /\ wc_scene' = NotScene
    /\ wc_arg' = 0
    /\ wc_timeout' = 0
    /\ wc_start' = 0
    /\ wc_pre' = FALSE
    /\ wc_post' = FALSE
    /\ wc_result' = Falsy
    /\ pre_count' = 0
    /\ post_count' = 0
    /\ cond_calls' = 0
    /\ wc_miss' = 0
    /\ last_cond' = Falsy

\* lines 129-131: start = time.time(); a time_out of 0 is replaced
WcBegin ==
    /\ pc = "wc_begin"
    /\ wc_start' = now
    /\ wc_timeout' = EffectiveTimeout(wc_arg)
    /\ pc' = "wc_loop"
    /\ UNCHANGED <<taskVars, current_task, pauseVars, exit_event, sceneVars,
                   envVars, stack, idx, start, nf_start, sl_task, sl_end, wc_scene, wc_arg, wc_pre,
                   wc_post, wc_result, ret, gpc, wcObs, obsVars, slObs>>

\* line 132 with the flag set, line 151: return None
WcExit ==
    /\ pc = "wc_loop"
    /\ exit_event
    /\ ret' = Falsy
    /\ Return
    /\ UNCHANGED <<taskVars, current_task, pauseVars, exit_event, sceneVars,
                   envVars, idx, start, nf_start, sl_task, sl_end, wc_scene, wc_arg, wc_timeout,
                   wc_start, wc_pre, wc_post, wc_result, gpc, wcObs, obsVars,
                   slObs>>

\* lines 133-136: reset_scene(); pre_action(); next_frame()
WcLoop ==
    /\ pc = "wc_loop"
    /\ ~exit_event
    /\ cond_calls + wc_miss < MaxAttempts
    /\ frame' = reset_scene[1]
    /\ current_scene' = reset_scene[2]
    /\ last_scene' = reset_scene[3]
    /\ stale' = FALSE
    /\ pre_count' = IF wc_pre THEN pre_count + 1 ELSE pre_count
    /\ stack' = <<"wc_frame">> \o stack
    /\ pc' = "nf_entry"
    /\ UNCHANGED <<taskVars, current_task, pauseVars, exit_event, envVars,
                   idx, start, nf_start, sl_task, sl_end, wcVars, gpc, post_count, cond_calls,
                   wc_miss, last_cond, evaluated, cyc_scene, slObs>>

\* lines 145-149, after a falsy result or a missing frame: post_action(),
\* the timeout test (break, return None); else on to line 150
WcRetry ==
    /\ post_count' = IF wc_post THEN post_count + 1 ELSE post_count
    /\ IF now - wc_start > wc_timeout
       THEN /\ ret' = Falsy
            /\ Return
       ELSE /\ pc' = "wc_sleep"
            /\ UNCHANGED <<ret, stack>>

\* a mutant of WcResult: post_action() is called before the result is
\* tested
WcResult_PostFirst(r) ==
    /\ pc = "wc_frame"
    /\ frame # NoFrame
    /\ cond_calls' = cond_calls + 1
    /\ last_cond' = r
    /\ post_count' = IF wc_post THEN post_count + 1 ELSE post_count
    /\ IF r # Falsy
       THEN /\ wc_result' = r
            /\ CallSleep(WaitUntilCheckDelay, "wc_found")
            /\ UNCHANGED ret
       ELSE /\ IF now - wc_start > wc_timeout
               THEN /\ ret' = Falsy
                    /\ Return
               ELSE /\ pc' = "wc_sleep"
                    /\ UNCHANGED <<ret, stack>>
            /\ UNCHANGED <<wc_result, sl_end>>
    /\ UNCHANGED <<taskVars, current_task, pauseVars, exit_event,
                   frame, last_scene, envVars, idx, start, nf_start, sl_task,
                   wc_scene, wc_arg, wc_timeout, wc_start, wc_pre,
                   wc_post, gpc, pre_count, wc_miss, stale, slObs>>

\* lines 137-150: a frame was returned and condition() gave r; a truthy r
\* is kept and sleep(wait_until_check_delay) is called; after a falsy r,
\* lines 145-149
WcResult(r) ==
    /\ pc = "wc_frame"
    /\ frame # NoFrame
    /\ cond_calls' = cond_calls + 1
    /\ last_cond' = r
    /\ IF r # Falsy
       THEN /\ wc_result' = r
            /\ CallSleep(WaitUntilCheckDelay, "wc_found")
            /\ UNCHANGED <<post_count, ret>>
       ELSE /\ WcRetry
            /\ UNCHANGED <<wc_result, sl_end>>
    /\ UNCHANGED <<taskVars, current_task, pauseVars, exit_event,
                   frame, last_scene, envVars, idx, start, nf_start, sl_task,
                   wc_scene, wc_arg, wc_timeout, wc_start, wc_pre,
                   wc_post, gpc, pre_count, wc_miss, stale, slObs>>

\* line 138, the condition of a wait_condition(): any result
WcFrame(r) ==
    /\ wc_scene = NotScene
    /\ WcResult(r)
    /\ UNCHANGED <<current_scene, evaluated, cyc_scene>>

\* line 138, the condition of a wait_scene(), line 125:
\* detect_scene(scene_type), which sets current_scene and returns it
WcSceneFrame ==
    /\ wc_scene # NotScene
    /\ WcResult(detect_scene_type(wc_scene)[1])
    /\ current_scene' = detect_scene_type(wc_scene)[1]
    /\ evaluated' = detect_scene_type(wc_scene)[2]
    /\ cyc_scene' = detect_scene_type(wc_scene)[1]

\* line 137 with no frame (next_frame() returned None): lines 145-149
WcNoFrame ==
    /\ pc = "wc_frame"
    /\ frame = NoFrame
    /\ wc_miss' = wc_miss + 1
    /\ WcRetry
    /\ UNCHANGED <<taskVars, current_task, pauseVars, exit_event,
                   sceneVars, envVars, idx, start, nf_start, sl_task, sl_end,
                   wc_scene, wc_arg, wc_timeout, wc_start, wc_pre, wc_post,
                   wc_result, gpc, pre_count, cond_calls, last_cond, obsVars,
                   slObs>>

\* line 150: sleep(0.01), then the next attempt
WcSleep ==
    /\ pc = "wc_sleep"
    /\ CallSleep(PollDelay, "wc_loop")
    /\ UNCHANGED <<taskVars, current_task, pauseVars, exit_event,
                   sceneVars, envVars, idx, start, nf_start, sl_task,
                   wcVars, gpc, wcObs, obsVars, slObs>>

\* line 144: return result
WcFound ==
    /\ pc = "wc_found"
    /\ ret' = wc_result
    /\ Return
    /\ UNCHANGED <<taskVars, current_task, pauseVars, exit_event, sceneVars,
                   envVars, idx, start, nf_start, sl_task, sl_end, wc_scene, wc_arg, wc_timeout,
                   wc_start, wc_pre, wc_post, wc_result, gpc, wcObs, obsVars,
                   slObs>>

\* ------------------------------------------------ execute(), lines 158-194
\* a mutant of ExLoop: the loop test does not look at the flag
ExLoop_Forever ==
    /\ pc = "ex_loop"
    /\ pc' = "nf_entry"
    /\ stack' = <<"ex_frame">> \o stack
    /\ UNCHANGED <<taskVars, current_task, pauseVars, exit_event, sceneVars,
                   envVars, idx, start, nf_start, sl_task, sl_end, wcVars, gpc, wcObs,
                   obsVars, slObs>>

\* line 160-161: the loop test, then next_frame()
ExLoop ==
    /\ pc = "ex_loop"
    /\ IF exit_event
       THEN /\ pc' = "ex_done"
            /\ UNCHANGED stack
       ELSE /\ pc' = "nf_entry"
            /\ stack' = <<"ex_frame">> \o stack
    /\ UNCHANGED <<taskVars, current_task, pauseVars, exit_event, sceneVars,
                   envVars, idx, start, nf_start, sl_task, sl_end, wcVars, gpc, wcObs,
                   obsVars, slObs>>

\* lines 161-163: _frame = the frame returned; start = time.time(); a cycle
\* without a frame does nothing more
ExFrame ==
    /\ pc = "ex_frame"
    /\ start' = now
    /\ pc' = IF frame # NoFrame THEN "ex_detect" ELSE "ex_loop"
    /\ UNCHANGED <<taskVars, current_task, pauseVars, exit_event, sceneVars,
                   envVars, stack, idx, nf_start, sl_task, sl_end, wcVars, gpc, wcObs,
                   obsVars, slObs>>

\* lines 164-166: detect_scene(); the task loop starts
ExDetect ==
    /\ pc = "ex_detect"
    /\ current_scene' = detect_scene[1]
    /\ evaluated' = detect_scene[2]
    /\ cyc_scene' = detect_scene[1]
    /\ idx' = 1
    /\ pc' = "ex_task"
    /\ UNCHANGED <<taskVars, current_task, pauseVars, exit_event, frame,
                   last_scene, envVars, stack, start, nf_start, sl_task, sl_end, wcVars, gpc,
                   wcObs, stale, slObs>>

\* lines 166-167: the next task of the list and the read of task.done: a
\* done task is passed over; after the last task, lines 193-194
ExTask ==
    /\ pc = "ex_task"
    /\ idx <= NumTasks
    /\ IF TaskDone(idx)
       THEN /\ idx' = idx + 1
            /\ pc' = "ex_task"
       ELSE /\ pc' = "ex_enabled"
            /\ UNCHANGED idx
    /\ UNCHANGED <<taskVars, current_task, pauseVars, exit_event, sceneVars,
                   envVars, stack, start, nf_start, sl_task, sl_end, wcVars, gpc, wcObs,
                   obsVars, slObs>>

\* lines 167-168, the read of task.enabled: a task that is not enabled is
\* passed over
ExEnabled ==
    /\ pc = "ex_enabled"
    /\ IF ~enabled[idx]
       THEN /\ idx' = idx + 1
            /\ pc' = "ex_task"
       ELSE /\ pc' = "ex_dispatch"
            /\ UNCHANGED idx
    /\ UNCHANGED <<taskVars, current_task, pauseVars, exit_event, sceneVars,
                   envVars, stack, start, nf_start, sl_task, sl_end, wcVars, gpc, wcObs,
                   obsVars, slObs>>

\* line 169: self.current_task = task
ExDispatch ==
    /\ pc = "ex_dispatch"
    /\ current_task' = idx
    /\ pc' = "ex_running"
    /\ UNCHANGED <<taskVars, pauseVars, exit_event, sceneVars, envVars,
                   stack, idx, start, nf_start, sl_task, sl_end, wcVars, gpc, wcObs, obsVars,
                   slObs>>

\* lines 170-173: task.running = True; task.last_execute_time = start;
\* run_frame() is entered
ExRunning ==
    /\ pc = "ex_running"
    /\ running' = [running EXCEPT ![idx] = TRUE]
    /\ pc' = "run"
    /\ UNCHANGED <<enabled, done, tpaused, error_count, info, current_task,
                   pauseVars, exit_event, sceneVars, envVars, stack, idx,
                   start, nf_start, sl_task, sl_end, wcVars, gpc, wcObs, obsVars, slObs>>

\* lines 174-175: except TaskDisabledException: logged
ExDisabled ==
    /\ pc = "ex_disabled"
    /\ pc' = "ex_after"
    /\ WcReset
    /\ ret' = Falsy
    /\ UNCHANGED <<taskVars, current_task, pauseVars, exit_event, sceneVars,
                   envVars, stack, idx, start, nf_start, sl_task, sl_end, gpc, obsVars, slObs>>

\* a mutant of ExFault: the fault ends the cycle's task loop
ExFault_Break ==
    /\ pc = "ex_fault"
    /\ error_count' = [error_count EXCEPT ![idx] = @ + 1]
    /\ pc' = "ex_after"
    /\ idx' = NumTasks
    /\ WcReset
    /\ ret' = Falsy
    /\ UNCHANGED <<enabled, done, running, tpaused, info, current_task,
                   pauseVars,
                   exit_event, sceneVars, envVars, stack, start, nf_start, sl_task, sl_end,
                   gpc, obsVars, slObs>>

\* lines 176-180: except Exception: logged, task.error_count += 1
ExFault ==
    /\ pc = "ex_fault"
    /\ error_count' = [error_count EXCEPT ![idx] = @ + 1]
    /\ pc' = "ex_after"
    /\ WcReset
    /\ ret' = Falsy
    /\ UNCHANGED <<enabled, done, running, tpaused, info, current_task,
                   pauseVars,
                   exit_event, sceneVars, envVars, stack, idx, start,
                   nf_start, sl_task, sl_end, gpc, obsVars, slObs>>

\* line 181: self.current_task = None
ExAfter ==
    /\ pc = "ex_after"
    /\ current_task' = NoTask
    /\ pc' = "ex_clear"
    /\ UNCHANGED <<taskVars, pauseVars, exit_event, sceneVars, envVars,
                   stack, idx, start, nf_start, sl_task, sl_end, wcVars, gpc, wcObs, obsVars,
                   slObs>>

\* line 182: task.running = False
ExClear ==
    /\ pc = "ex_clear"
    /\ running' = ClearRunning(idx)
    /\ pc' = "ex_time"
    /\ UNCHANGED <<enabled, done, tpaused, error_count, info, current_task,
                   pauseVars, exit_event, sceneVars, envVars, stack, idx,
                   start, nf_start, sl_task, sl_end, wcVars, gpc, wcObs, obsVars, slObs>>

\* a mutant of ExTime: the loop does not move on to the next task
ExTime_Again ==
    /\ pc = "ex_time"
    /\ stale' = (now - start > FreshThreshold)
    /\ IF TooLong(now - start)
       THEN /\ pc' = "nf_entry"
            /\ stack' = <<"ex_fresh">> \o stack
            /\ UNCHANGED idx
       ELSE /\ pc' = "ex_task"
            /\ UNCHANGED <<idx, stack>>
    /\ UNCHANGED <<taskVars, current_task, pauseVars, exit_event, sceneVars,
                   envVars, start, nf_start, sl_task, sl_end, wcVars, gpc, wcObs, evaluated,
                   cyc_scene, slObs>>

\* lines 183-188: processing_time = time.time() - start; a cycle that has
\* taken too long calls next_frame() before the next task
ExTime ==
    /\ pc = "ex_time"
    /\ stale' = (now - start > FreshThreshold)
    /\ IF TooLong(now - start)
       THEN /\ pc' = "nf_entry"
            /\ stack' = <<"ex_fresh">> \o stack
            /\ UNCHANGED idx
       ELSE /\ pc' = "ex_task"
            /\ idx' = idx + 1
            /\ UNCHANGED stack
    /\ UNCHANGED <<taskVars, current_task, pauseVars, exit_event, sceneVars,
                   envVars, start, nf_start, sl_task, sl_end, wcVars, gpc, wcObs, evaluated,
                   cyc_scene, slObs>>

\* line 189: start = time.time(), then on to the next task
ExFresh ==
    /\ pc = "ex_fresh"
    /\ start' = now
    /\ idx' = idx + 1
    /\ pc' = "ex_task"
    /\ UNCHANGED <<taskVars, current_task, pauseVars, exit_event, sceneVars,
                   envVars, stack, nf_start, sl_task, sl_end, wcVars, gpc, wcObs, obsVars,
                   slObs>>

\* lines 193-194, after the last task: add_frame_stats(); sleep(0.001)
ExStats ==
    /\ pc = "ex_task"
    /\ idx > NumTasks
    /\ idx' = 1
    /\ CallSleep(PollDelay, "ex_loop")
    /\ UNCHANGED <<taskVars, current_task, pauseVars, exit_event,
                   sceneVars, envVars, start, nf_start, sl_task, wcVars, gpc,
                   wcObs, obsVars, slObs>>

\* ------------------------------ run_frame(): what a task's hook may do
\* run_frame() returns
TaskReturn ==
    /\ pc = "run"
    /\ pc' = "ex_after"
    /\ UNCHANGED <<taskVars, current_task, pauseVars, exit_event, sceneVars,
                   envVars, stack, idx, start, nf_start, sl_task, sl_end, wcVars, gpc, wcObs,
                   obsVars, slObs>>

\* run_frame() raises an exception other than TaskDisabledException
TaskRaise ==
    /\ pc = "run"
    /\ error_count[idx] < MaxErrors
    /\ pc' = "ex_fault"
    /\ UNCHANGED <<taskVars, current_task, pauseVars, exit_event, sceneVars,
                   envVars, stack, idx, start, nf_start, sl_task, sl_end, wcVars, gpc, wcObs,
                   obsVars, slObs>>

\* run_frame() calls executor.sleep(timeout)
TaskSleep(timeout) ==
    /\ pc = "run"
    /\ CallSleep(timeout, "run")
    /\ UNCHANGED <<taskVars, current_task, pauseVars, exit_event,
                   sceneVars, envVars, idx, start, nf_start, sl_task, wcVars,
                   gpc, wcObs, obsVars, slObs>>

\* run_frame() calls executor.next_frame()
TaskNextFrame ==
    /\ pc = "run"
    /\ pc' = "nf_entry"
    /\ stack' = <<"run">> \o stack
    /\ UNCHANGED <<taskVars, current_task, pauseVars, exit_event, sceneVars,
                   envVars, idx, start, nf_start, sl_task, sl_end, wcVars, gpc, wcObs,
                   obsVars, slObs>>

\* the call of wait_condition() by run_frame(), with wait_scene()'s
\* scene type or NotScene; line 128 calls sleep(wait_until_before_delay),
\* whose line 91 evaluates `time.time() + timeout`.  pre and post say
\* whether the actions are not None.
CallWait(scene_type, time_out, pre, post) ==
    /\ pc = "run"
    /\ wc_scene' = scene_type
    /\ wc_arg' = time_out
    /\ wc_pre' = pre
    /\ wc_post' = post
    /\ sl_end' = now + WaitUntilBeforeDelay
    /\ stack' = <<"wc_begin", "run_wc">> \o stack
    /\ pc' = "sl_set"
    /\ UNCHANGED <<taskVars, current_task, pauseVars, exit_event,
                   sceneVars, envVars, idx, start, nf_start, sl_task,
                   wc_timeout, wc_start, wc_result, ret, gpc, wcObs, obsVars,
                   slObs>>

\* run_frame() calls executor.wait_condition(condition, time_out,
\* pre_action, post_action)
TaskWait(time_out, pre, post) == CallWait(NotScene, time_out, pre, post)

\* run_frame() calls executor.wait_scene(scene_type, time_out, pre_action,
\* post_action), lines 124-125; scene_type may be None
TaskWaitScene(scene_type, time_out, pre, post) ==
    /\ scene_type # NotScene
    /\ CallWait(scene_type, time_out, pre, post)

\* wait_condition() has returned `ret` to run_frame(), which goes on
TaskWaited ==
    /\ pc = "run_wc"
    /\ pc' = "run"
    /\ WcReset
    /\ ret' = Falsy
    /\ UNCHANGED <<taskVars, current_task, pauseVars, exit_event, sceneVars,
                   envVars, stack, idx, start, nf_start, sl_task, sl_end, gpc, obsVars, slObs>>

\* run_frame() calls executor.detect_scene(scene_type) on the frame it was
\* dispatched with
TaskDetectScene(scene_type) ==
    /\ pc = "run"
    /\ frame # NoFrame
    /\ current_scene' = detect_scene_type(scene_type)[1]
    /\ evaluated' = detect_scene_type(scene_type)[2]
    /\ cyc_scene' = detect_scene_type(scene_type)[1]
    /\ UNCHANGED <<taskVars, current_task, pauseVars, exit_event, frame,
                   last_scene, envVars, ctlVars, wcVars, gpc, wcObs, stale,
                   slObs>>

\* run_frame() calls self.info_set(key, value), BaseTask.py:132-133
TaskInfoSet ==
    /\ pc = "run"
    /\ info' = [info EXCEPT ![idx] = HasInfo]
    /\ UNCHANGED <<enabled, done, running, tpaused, error_count,
                   current_task, pauseVars, exit_event, sceneVars, envVars,
                   ctlVars, wcVars, gpc, wcObs, obsVars, slObs>>

\* run_frame() calls self.disable(), BaseTask.py:152:
\* self._enabled = False
TaskDisable ==
    /\ pc = "run"
    /\ enabled' = [enabled EXCEPT ![idx] = FALSE]
    /\ pc' = "run_disable"
    /\ UNCHANGED <<done, running, tpaused, error_count, info, current_task,
                   pauseVars, exit_event, sceneVars, envVars, stack, idx,
                   start, nf_start, sl_task, sl_end, wcVars, gpc, wcObs, obsVars, slObs>>

\* disable() called by run_frame(), BaseTask.py:153:
\* self.executor.current_task = None
TaskDisable2 ==
    /\ pc = "run_disable"
    /\ current_task' = NoTask
    /\ pc' = "run"
    /\ UNCHANGED <<taskVars, pauseVars, exit_event, sceneVars, envVars,
                   stack, idx, start, nf_start, sl_task, sl_end, wcVars, gpc, wcObs, obsVars,
                   slObs>>

\* run_frame() calls self.set_done(), BaseTask.py:56: self._done = True
TaskSetDone ==
    /\ pc = "run"
    /\ done' = [done EXCEPT ![idx] = TRUE]
    /\ pc' = "run_setdone"
    /\ UNCHANGED <<enabled, running, tpaused, error_count, info,
                   current_task, pauseVars, exit_event, sceneVars, envVars,
                   stack, idx, start, nf_start, sl_task, sl_end, wcVars, gpc, wcObs, obsVars,
                   slObs>>

\* set_done() called by run_frame(), BaseTask.py:57 and 152: self.disable()
TaskSetDone2 ==
    /\ pc = "run_setdone"
    /\ enabled' = [enabled EXCEPT ![idx] = FALSE]
    /\ pc' = "run_disable"
    /\ UNCHANGED <<done, running, tpaused, error_count, info, current_task,
                   pauseVars, exit_event, sceneVars, envVars, stack, idx,
                   start, nf_start, sl_task, sl_end, wcVars, gpc, wcObs, obsVars, slObs>>

\* ------------------------------------- the caller thread: BaseTask.py
\* enable(), line 45: the test `if not self._enabled`; `was` keeps what it
\* found
GEnable(t) ==
    /\ gpc = Idle
    /\ gpc' = [op |-> EnableStep(t), t |-> t, was |-> enabled[t]]
    /\ UNCHANGED <<taskVars, current_task, pauseVars, exit_event, sceneVars,
                   envVars, ctlVars, wcVars, wcObs, obsVars, slObs>>

\* enable(), line 46: self._enabled = True
GEnableSet ==
    /\ gpc.op = "enable_set"
    /\ enabled' = [enabled EXCEPT ![gpc.t] = TRUE]
    /\ gpc' = [gpc EXCEPT !.op = "enable_clear"]
    /\ UNCHANGED <<done, running, tpaused, error_count, info, current_task,
                   pauseVars, exit_event, sceneVars, envVars, ctlVars,
                   wcVars, wcObs, obsVars, slObs>>

\* enable(), line 47: self.info_clear()
GEnableClear ==
    /\ gpc.op = "enable_clear"
    /\ info' = [info EXCEPT ![gpc.t] = NoInfo]
    /\ gpc' = [gpc EXCEPT !.op = "enable2"]
    /\ UNCHANGED <<enabled, done, running, tpaused, error_count,
                   current_task, pauseVars, exit_event, sceneVars, envVars,
                   ctlVars, wcVars, wcObs, obsVars, slObs>>

\* enable(), line 49: self._done = False
GEnable2 ==
    /\ gpc.op = "enable2"
    /\ done' = [done EXCEPT ![gpc.t] = FALSE]
    /\ gpc' = Idle
    /\ UNCHANGED <<enabled, running, tpaused, error_count, info,
                   current_task, pauseVars, exit_event, sceneVars, envVars,
                   ctlVars, wcVars, wcObs, obsVars, slObs>>

\* disable(), line 152: self._enabled = False
Disable1(t) ==
    /\ enabled' = [enabled EXCEPT ![t] = FALSE]
    /\ gpc' = [op |-> "disable2", t |-> t]
    /\ UNCHANGED <<done, running, tpaused, error_count, info, current_task,
                   pauseVars, exit_event, sceneVars, envVars, ctlVars,
                   wcVars, wcObs, obsVars, slObs>>

GDisable(t) ==
    /\ gpc = Idle
    /\ Disable1(t)

\* disable(), line 153: self.executor.current_task = None
GDisable2 ==
    /\ gpc.op = "disable2"
    /\ current_task' = NoTask
    /\ gpc' = Idle
    /\ UNCHANGED <<taskVars, pauseVars, exit_event, sceneVars, envVars,
                   ctlVars, wcVars, wcObs, obsVars, slObs>>

\* set_done(), line 56: self._done = True
GSetDone(t) ==
    /\ gpc = Idle
    /\ done' = [done EXCEPT ![t] = TRUE]
    /\ gpc' = [op |-> "set_done2", t |-> t]
    /\ UNCHANGED <<enabled, running, tpaused, error_count, info,
                   current_task,
                   pauseVars, exit_event, sceneVars, envVars, ctlVars,
                   wcVars, wcObs, obsVars, slObs>>

\* set_done(), line 57: self.disable()
GSetDone2 ==
    /\ gpc.op = "set_done2"
    /\ Disable1(gpc.t)

\* pause(), line 67: `self.executor.pause(self)`.  TaskExecutor.pause()
\* takes no argument (TaskExecutor.py:104), so the call raises TypeError
\* and lines 68-71 are not run; the exception goes to the caller
GTaskPause(t) ==
    /\ gpc = Idle
    /\ gpc' = [op |-> "raised", t |-> t]
    /\ UNCHANGED <<taskVars, current_task, pauseVars, exit_event, sceneVars,
                   envVars, ctlVars, wcVars, wcObs, obsVars, slObs>>

\* the caller has the exception of a call
GRaised ==
    /\ gpc.op = "raised"
    /\ gpc' = Idle
    /\ UNCHANGED <<taskVars, current_task, pauseVars, exit_event, sceneVars,
                   envVars, ctlVars, wcVars, wcObs, obsVars, slObs>>

\* unpause(), line 74: self._paused = False
GTaskUnpause(t) ==
    /\ gpc = Idle
    /\ tpaused' = [tpaused EXCEPT ![t] = FALSE]
    /\ gpc' = [op |-> "unpause2", t |-> t]
    /\ UNCHANGED <<enabled, done, running, error_count, info, current_task,
                   pauseVars, exit_event, sceneVars, envVars, ctlVars,
                   wcVars, wcObs, obsVars, slObs>>

\* --------------------------------- the caller thread: TaskExecutor.py
\* pause(), line 105: self.paused = True
GPause ==
    /\ gpc = Idle
    /\ paused' = TRUE
    /\ gpc' = [op |-> "pause2", t |-> NoTask]
    /\ UNCHANGED <<taskVars, current_task, pause_start, pause_end_time,
                   exit_event, sceneVars, envVars, ctlVars, wcVars, wcObs,
                   obsVars, slObs>>

\* pause(), line 106: self.pause_start = time.time().  A sleep() that is
\* pending has pause_end_time - pause_start left to wait: sl_need keeps it.
GPause2 ==
    /\ gpc.op = "pause2"
    /\ pause_start' = now
    /\ sl_phase' = IF pc \in SleepLabels
                   THEN IF sl_phase = "run" THEN "paused" ELSE "other"
                   ELSE sl_phase
    /\ sl_need' = IF pc \in SleepLabels /\ sl_phase = "run"
                  THEN pause_end_time - now
                  ELSE 0
    /\ gpc' = Idle
    /\ UNCHANGED <<taskVars, current_task, paused, pause_end_time,
                   exit_event, sceneVars, envVars, ctlVars, wcVars, wcObs,
                   obsVars>>

\* start(), lines 110-118, when some task.can_run() is true: the read of
\* self.pause_end_time for `+=`.  t is the task whose unpause() made the
\* call, or NoTask.
StartRead(t) ==
    /\ gpc' = [op |-> "start2", t |-> t, end |-> pause_end_time, at |-> 0]
    /\ UNCHANGED <<taskVars, current_task, pauseVars, exit_event, sceneVars,
                   envVars, ctlVars, wcVars, wcObs, obsVars, slObs>>

\* start(), lines 110-117, when no task.can_run() is true: start() returns
\* False and has changed nothing.  can_run() is a method of the tasks
\* that BaseTask does not define: what it answers is the task's choice.
StartRefused ==
    /\ gpc' = Idle
    /\ UNCHANGED <<taskVars, current_task, pauseVars, exit_event, sceneVars,
                   envVars, ctlVars, wcVars, wcObs, obsVars, slObs>>

\* start() called by the caller thread; a start() that returns False at
\* line 117 leaves every variable as it was
GStart ==
    /\ gpc = Idle
    /\ StartRead(NoTask)

\* unpause(), line 75: self.executor.start(), which goes on to line 118 or
\* returns False at line 117; then line 76 and the return of unpause()
GTaskUnpause2 ==
    /\ gpc.op = "unpause2"
    /\ \/ StartRead(gpc.t)
       \/ StartRefused

\* start(), line 118: `self.pause_start - time.time()` is added to the
\* wake time that was read; `at` keeps what the clock gave.  The wake time
\* is followed down to -MaxTime.
GStart2 ==
    /\ gpc.op = "start2"
    /\ ShiftedEnd(gpc.end) >= 0 - MaxTime
    /\ gpc' = [gpc EXCEPT !.op = "start3", !.end = ShiftedEnd(gpc.end),
                          !.at = now]
    /\ UNCHANGED <<taskVars, current_task, pauseVars, exit_event, sceneVars,
                   envVars, ctlVars, wcVars, wcObs, obsVars, slObs>>

\* start(), line 118: the sum is stored in self.pause_end_time
GStart3 ==
    /\ gpc.op = "start3"
    /\ pause_end_time' = gpc.end
    /\ gpc' = [gpc EXCEPT !.op = "start4"]
    /\ UNCHANGED <<taskVars, current_task, paused, pause_start, exit_event,
                   sceneVars, envVars, ctlVars, wcVars, wcObs, obsVars,
                   slObs>>

\* start(), line 119: self.paused = False.  A sleep() that was pending
\* when pause() was called must not return before what it had left has
\* passed from now on: sl_need is that time.
GStart4 ==
    /\ gpc.op = "start4"
    /\ paused' = FALSE
    /\ sl_phase' = IF pc \in SleepLabels
                   THEN IF sl_phase = "paused" THEN "resumed" ELSE "other"
                   ELSE sl_phase
    /\ sl_need' = IF pc \in SleepLabels /\ sl_phase = "paused"
                  THEN now + sl_need
                  ELSE 0
    /\ gpc' = Idle
    /\ UNCHANGED <<taskVars, current_task, pause_start, pause_end_time,
                   exit_event, sceneVars, envVars, ctlVars, wcVars, wcObs,
                   obsVars>>

\* stop(), lines 230-231
GStop ==
    /\ ~exit_event
    /\ exit_event' = TRUE
    /\ UNCHANGED <<taskVars, current_task, pauseVars, sceneVars, envVars,
                   ctlVars, wcVars, gpc, wcObs, obsVars, slObs>>

\* ------------------------------------------------------ the environment
\* time passes
Tick ==
    /\ now < MaxTime
    /\ now' = now + 1
    /\ UNCHANGED <<taskVars, current_task, pauseVars, exit_event, sceneVars,
                   should_capture, ctlVars, wcVars, gpc, wcObs, obsVars,
                   slObs>>

\* interaction.should_capture() changes (the window is minimised, restored)
EnvCapture ==
    /\ should_capture' = ~should_capture
    /\ UNCHANGED <<taskVars, current_task, pauseVars, exit_event, sceneVars,
                   now, ctlVars, wcVars, gpc, wcObs, obsVars, slObs>>

\* ------------------------------------------------------- specifications
\* the executor thread outside run_frame(); F is what get_frame() can give
Executor(F) ==
    \/ ExLoop \/ ExFrame \/ ExDetect \/ ExTask \/ ExEnabled \/ ExDispatch
    \/ ExRunning \/ ExAfter \/ ExClear \/ ExTime \/ ExStats
    \/ Sleep
    \/ NfEntry \/ NfLoop \/ NfBadFrame \/ NfNoFrame \/ NfTick
    \/ \E f \in F : NfGotFrame(f)

\* wait_condition(), called by a task
WaitCondition ==
    \/ WcBegin \/ WcExit \/ WcLoop \/ WcNoFrame \/ WcSleep \/ WcFound
    \/ \E r \in CondResults : WcFrame(r)
    \/ \E time_out \in 0..MaxTimeOut, pre \in BOOLEAN, post \in BOOLEAN :
           TaskWait(time_out, pre, post)
    \/ TaskWaited

\* wait_scene(), called by a task
WaitScene ==
    \/ WcSceneFrame
    \/ \E scene_type \in SceneTypes \cup {NoType},
          time_out \in 0..MaxTimeOut, pre \in BOOLEAN, post \in BOOLEAN :
           TaskWaitScene(scene_type, time_out, pre, post)

\* a task disables itself or declares itself done
TaskFlags == TaskDisable \/ TaskDisable2 \/ TaskSetDone \/ TaskSetDone2

\* the calls of the caller thread on the tasks
TaskCalls ==
    \/ \E t \in Tasks : GEnable(t) \/ GDisable(t) \/ GSetDone(t)
    \/ GEnableSet \/ GEnableClear \/ GEnable2 \/ GDisable2 \/ GSetDone2

\* the calls of the caller thread on a task's pause() and unpause()
TaskPauseCalls ==
    \/ \E t \in Tasks : GTaskPause(t) \/ GTaskUnpause(t)
    \/ GRaised \/ GTaskUnpause2

\* pause() of the executor
Pause == GPause \/ GPause2

\* start() of the executor
Start == GStart \/ GStart2 \/ GStart3 \/ GStart4

\* the whole program
Next ==
    \/ Executor(Frames) \/ ExDisabled \/ ExFault \/ ExFresh \/ NfExit
    \/ WaitCondition \/ WaitScene
    \/ TaskReturn \/ TaskRaise \/ TaskNextFrame \/ TaskFlags \/ TaskInfoSet
    \/ \E scene_type \in SceneTypes : TaskDetectScene(scene_type)
    \/ \E timeout \in 0..MaxSleep : TaskSleep(timeout)
    \/ TaskCalls \/ TaskPauseCalls \/ Pause \/ Start \/ GStop
    \/ Tick \/ EnvCapture

Spec == Init /\ [][Next]_vars

\* The specifications below are the program with some of its callers and
\* some of what a run_frame() may do left out, each small enough to explore.

\* the scheduler and the task flags under the calls of the caller thread
\* on the tasks, from the executor started with no task enabled; the clock
\* stands still at the tick of the import (start() is not called again, so
\* the time since the import is read by no step), every frame is alike, a
\* task sleeps 0 ticks, the run_frame() of the first task may raise
NextSched ==
    \/ Executor({{}}) \/ ExDisabled \/ ExFault
    \/ TaskReturn \/ (idx = 1 /\ TaskRaise) \/ TaskFlags \/ TaskSleep(0)
    \/ TaskCalls

InitSched ==
    /\ InitStarted({})
    /\ now = 0

SpecSched == InitSched /\ [][NextSched]_vars

\* the scheduler with the clock, every task enabled and the executor
\* started: tasks that sleep, fetch frames and fail
NextFresh ==
    \/ Executor({{}}) \/ ExFresh \/ ExFault
    \/ TaskReturn \/ TaskRaise \/ TaskNextFrame
    \/ \E timeout \in 0..MaxSleep : TaskSleep(timeout)
    \/ Tick

SpecFresh == InitStarted(Tasks) /\ [][NextFresh]_vars

\* sleep() under pause() and start(), with the clock: the first task sleeps
NextPause ==
    \/ Executor({{}}) \/ ExFresh
    \/ TaskReturn
    \/ \E timeout \in 0..MaxSleep : TaskSleep(timeout)
    \/ Pause \/ Start
    \/ Tick

SpecPause == InitStarted({1}) /\ [][NextPause]_vars

\* wait_condition() called by the first task, with the clock and stop()
NextWait ==
    \/ Executor({{}}) \/ ExFresh \/ NfExit
    \/ WaitCondition \/ TaskReturn
    \/ GStop
    \/ Tick

SpecWait == InitStarted({1}) /\ [][NextWait]_vars

\* scene detection over the cycles: every frame, a task that sleeps
NextScene ==
    \/ Executor(Frames) \/ ExFresh
    \/ TaskReturn
    \/ \E timeout \in 0..MaxSleep : TaskSleep(timeout)
    \/ Tick

SpecScene == InitStarted({1}) /\ [][NextScene]_vars

\* the task flags and the info mapping: the calls of the caller thread on
\* the tasks, and tasks that write their info, disable themselves or
\* declare themselves done, and start(); the clock stands still.  No task
\* sleeps, so sleep() is called with no current task only and never comes
\* to its second read.
NextFlags ==
    \/ ExLoop \/ ExFrame \/ ExDetect \/ ExTask \/ ExEnabled \/ ExDispatch
    \/ ExRunning \/ ExAfter \/ ExClear \/ ExTime \/ ExStats
    \/ SlSet \/ SlLoop \/ SlCur \/ SlPause \/ SlCap \/ SlEnd \/ SlTime
    \/ NfEntry \/ NfLoop \/ NfGotFrame({})
    \/ TaskReturn \/ TaskInfoSet \/ TaskFlags
    \/ TaskCalls \/ Start

SpecFlags == Init /\ [][NextFlags]_vars

\* scene detection with a type filter: every frame, a task that calls
\* detect_scene(scene_type) or wait_scene(scene_type) and sleeps 0 ticks,
\* with the clock
NextTyped ==
    \/ Executor(Frames) \/ ExFresh
    \/ TaskReturn \/ TaskSleep(0)
    \/ \E scene_type \in SceneTypes : TaskDetectScene(scene_type)
    \/ WcBegin \/ WcLoop \/ WcNoFrame \/ WcSleep \/ WcFound \/ WcSceneFrame
    \/ \E scene_type \in SceneTypes \cup {NoType} :
           TaskWaitScene(scene_type, 0, FALSE, FALSE)
    \/ TaskWaited
    \/ Tick

SpecTyped == InitStarted({1}) /\ [][NextTyped]_vars

\* sleep() under pause(), stop(), disable() and a capture that comes and
\* goes, with the clock: the first task sleeps; a pause is not ended
NextSleep ==
    \/ Executor({{}}) \/ ExFresh \/ ExDisabled \/ ExFault \/ NfExit
    \/ TaskReturn
    \/ \E timeout \in 0..MaxSleep : TaskSleep(timeout)
    \/ GDisable(1) \/ GDisable2
    \/ Pause \/ GStop
    \/ Tick \/ EnvCapture

SpecSleep == InitStarted({1}) /\ [][NextSleep]_vars

\* the pause gate: pause() and unpause() of the tasks, pause() and start()
\* of the executor, enable(); a task sleeps 0 ticks; the clock stands still
NextGate ==
    \/ Executor({{}})
    \/ TaskReturn \/ TaskSleep(0)
    \/ (\E t \in Tasks : GEnable(t)) \/ GEnableSet \/ GEnableClear \/ GEnable2
    \/ TaskPauseCalls \/ Pause \/ Start

SpecGate == Init /\ [][NextGate]_vars

\* the steps of the executor thread under stop()
ExecutorStop ==
    \/ Executor({{}}) \/ ExFresh \/ NfExit
    \/ WcBegin \/ WcExit \/ WcLoop \/ WcNoFrame \/ WcSleep \/ WcFound
    \/ \E r \in CondResults : WcFrame(r)
    \/ TaskWait(0, TRUE, TRUE) \/ TaskWaited
    \/ TaskReturn \/ TaskSleep(MaxSleep)

\* stop(): a task that sleeps and waits for a condition with the default
\* timeout, under pause(), a capture that comes and goes and stop(), with
\* the clock up to StopHorizon
NextStop ==
    \/ ExecutorStop
    \/ Pause \/ GStop
    \/ (now < StopHorizon /\ Tick) \/ EnvCapture

\* the executor thread keeps running, and a run_frame() that gets control
\* again and again returns in the end
SpecStop ==
    /\ InitStarted({1})
    /\ [][NextStop]_vars
    /\ WF_vars(ExecutorStop)
    /\ SF_vars(TaskReturn)

\* the frame and the scene a task is dispatched with: every frame, every
\* task enabled, tasks that sleep, with the clock
NextHeld ==
    \/ Executor(Frames) \/ ExFresh
    \/ TaskReturn \/ TaskSleep(MaxSleep)
    \/ Tick

SpecHeld == InitStarted(Tasks) /\ [][NextHeld]_vars

\* ---------------------------------------------------------------- claims
\* a step of the executor thread that leaves the label l
Leaves(l) == pc = l /\ pc' # l

\* a step in which sleep() returns to its caller (no exception)
SleepReturns ==
    /\ pc \in SleepLabels
    /\ pc' \notin SleepLabels \cup {"ex_disabled", "ex_fault"}

\* C1: in every reachable state, under the calls of the caller thread, at
\* most one task of the list has running = true.
C1_AtMostOneRunning == Cardinality({t \in Tasks : running[t]}) <= 1

\* the second task runs after the first one ran and failed, the first still
\* being eligible
C1_Witness ==
    /\ running[2]
    /\ pc = "run"
    /\ enabled[1] /\ ~done[1]
    /\ error_count[1] > 0

\* C2: the handler of a generic fault adds exactly 1 to the task's
\* error_count and leaves its enabled flag alone; then current_task and
\* running are cleared and the loop goes on to the next task of the same
\* cycle, which is dispatched when it is found not done and enabled.
C2_FaultContained ==
    [][/\ Leaves("ex_fault") =>
            /\ error_count' = [error_count EXCEPT ![idx] = @ + 1]
            /\ enabled' = enabled
            /\ pc' = "ex_after"
            /\ idx' = idx
       /\ Leaves("ex_after") =>
            /\ current_task' = NoTask
            /\ pc' = "ex_clear"
            /\ idx' = idx
       /\ Leaves("ex_clear") =>
            /\ ~running'[idx]
            /\ pc' = "ex_time"
            /\ idx' = idx
       /\ Leaves("ex_time") =>
            \/ pc' = "ex_task" /\ idx' = idx + 1
            \/ pc' = "nf_entry" /\ Head(stack') = "ex_fresh" /\ idx' = idx
       /\ (pc = "ex_task" /\ idx <= NumTasks /\ <<pc, idx>>' # <<pc, idx>>) =>
            IF ~done[idx]
            THEN pc' = "ex_enabled" /\ idx' = idx
            ELSE pc' = "ex_task" /\ idx' = idx + 1
       /\ Leaves("ex_enabled") =>
            IF enabled[idx]
            THEN pc' = "ex_dispatch" /\ idx' = idx
            ELSE pc' = "ex_task" /\ idx' = idx + 1
      ]_vars

\* the first task has failed MaxErrors times, is still enabled, and the
\* second task is being dispatched
C2_Witness ==
    /\ pc = "ex_dispatch"
    /\ idx = 2
    /\ error_count[1] = MaxErrors
    /\ enabled[1]

\* C3: when the task whose run_frame() is executing has been disabled (the
\* disable() or set_done() call is over), a poll of a sleep() it is in
\* goes on to test that task, where TaskDisabledException is raised, and
\* not to the wake test.
C3_DisabledSleepRaises ==
    [][(/\ pc = "sl_cur"
        /\ InRunFrame
        /\ ~enabled[idx]
        /\ gpc = Idle
        /\ pc' # pc) => pc' = "sl_chk"]_vars

\* C4: for a sleep() that was pending when pause() was called, start() moves
\* the wake time later by the length of the pause, and the sleep does not
\* return before what was left of it at pause() has passed after start().
C4_PauseShiftsDeadline ==
    [][/\ (/\ pc \in SleepLabels
           /\ sl_phase = "paused"
           /\ sl_need > 0
           /\ GStart3) =>
              pause_end_time' = pause_end_time + (gpc.at - pause_start)
       /\ (/\ SleepReturns
           /\ sl_phase = "resumed"
           /\ ~exit_event) => now >= sl_need
      ]_vars

\* C5: when the scene that the previous cycle's detection made current
\* matches the new frame, detect_scene() of the main loop keeps it and
\* evaluates no other scene.
C5_OptimisticKept ==
    [][(/\ Leaves("ex_detect")
        /\ cyc_scene # NoScene
        /\ detect(cyc_scene, frame)) =>
             /\ current_scene' = cyc_scene
             /\ evaluated' = {cyc_scene}]_vars

\* C6: for every task, running = true implies enabled = true.
C6_RunningImpliesEnabled == \A t \in Tasks : running[t] => enabled[t]

\* C7: get_status() is "Not Started" when enabled = false, "Running" when
\* enabled and running, "Paused" when enabled, not running and paused,
\* "In Queue" when enabled, not running and not paused.
C7_StatusTable ==
    \A t \in Tasks :
        get_status(t) = IF ~enabled[t] THEN "Not Started"
                        ELSE IF running[t] THEN "Running"
                        ELSE IF tpaused[t] THEN "Paused"
                        ELSE "In Queue"

\* C8: when more than the threshold has passed since the cycle's baseline
\* as a task's dispatch finishes, next_frame() is called and the baseline is
\* reset before the next task; no task is dispatched with a frame held when
\* the threshold was found exceeded.
C8_FreshFrame ==
    [][/\ (Leaves("ex_time") /\ now - start > FreshThreshold) =>
            /\ pc' = "nf_entry"
            /\ Head(stack') = "ex_fresh"
       /\ Leaves("ex_fresh") =>
            /\ start' = now
            /\ pc' = "ex_task"
       /\ Leaves("ex_dispatch") => ~stale
      ]_vars

\* the frame was fetched again after a task of the cycle, and a later task
\* of the list is still to come
C8_Witness ==
    /\ pc = "ex_fresh"
    /\ idx < NumTasks
    /\ frame # NoFrame

\* C9: a wait_condition() that got a frame on every attempt and returns a
\* truthy value returns the last result of condition(), has called
\* pre_action once per call of condition() and post_action once less.
C9_WaitCounts ==
    (pc = "run_wc" /\ ret # Falsy /\ wc_miss = 0) =>
        /\ ret = last_cond
        /\ pre_count = (IF wc_pre THEN cond_calls ELSE 0)
        /\ post_count = (IF wc_post THEN cond_calls - 1 ELSE 0)

\* the condition was truthy on the third attempt
C9_Witness ==
    /\ pc = "run_wc"
    /\ ret # Falsy
    /\ wc_miss = 0
    /\ wc_pre /\ wc_post
    /\ cond_calls = 3
    /\ post_count = 2

\* the timeout wait_condition(time_out) must apply
C10_TimeOut == IF wc_arg = 0 THEN WaitSceneTimeout ELSE wc_arg

\* C10: wait_condition() returns None only when the cancellation flag is
\* set or more than time_out (wait_scene_timeout for a time_out of 0) has
\* passed since the settle delay; and an attempt that fails after that time
\* ends the call with None.
C10_TimeoutNone ==
    [][/\ (pc # "run_wc" /\ pc' = "run_wc" /\ ret' = Falsy) =>
            \/ exit_event
            \/ now - wc_start > C10_TimeOut
       /\ (/\ Leaves("wc_frame")
           /\ last_cond' = Falsy
           /\ now - wc_start > C10_TimeOut) =>
              /\ pc' = "run_wc"
              /\ ret' = Falsy
      ]_vars

\* a wait_condition(0, ...) has returned None on the default timeout
C10_Witness ==
    /\ pc = "run_wc"
    /\ ret = Falsy
    /\ ~exit_event
    /\ wc_arg = 0
    /\ cond_calls > 0
    /\ now - wc_start > WaitSceneTimeout

\* C11: enable() on a task that it finds enabled goes straight to line 49
\* and leaves the info and the enabled flag as they were; it leaves the done
\* flag as it was too, unless a set_done() of the task has written done and
\* is still before its disable(), or has ended since enable() read the
\* enabled flag: then line 49 clears done.  With no set_done() of the task
\* under way, an enable() called on an enabled task finds done false.  The
\* info of a task is cleared by nothing but an enable() that found the task
\* not enabled.
C11_EnableIdempotent ==
    [][\A t \in Tasks :
         /\ (enabled[t] /\ GEnable(t)) =>
               /\ gpc'.op = "enable2"
               /\ gpc'.was
               /\ ~(pc = "run_setdone" /\ idx = t) => ~done[t]
         /\ (/\ gpc.op = "enable2"
             /\ gpc.t = t
             /\ gpc.was
             /\ GEnable2) =>
               /\ info' = info
               /\ enabled' = enabled
               /\ done' # done =>
                     \/ pc = "run_setdone" /\ idx = t
                     \/ ~enabled[t]
         /\ (info[t] # NoInfo /\ info'[t] = NoInfo) =>
               /\ gpc.op = "enable_clear"
               /\ gpc.t = t
               /\ ~gpc.was
      ]_vars

\* C11, as it is stated: enable() on a task that it finds enabled leaves the
\* done flag and the info as they were, whatever the task does meanwhile.
\* An enable() that comes between the two writes of the task's own
\* set_done() finds the task enabled and clears the done flag that
\* set_done() has just written.
C11_EnableNoOp ==
    [][\A t \in Tasks :
         /\ (enabled[t] /\ GEnable(t)) =>
               /\ gpc'.op = "enable2"
               /\ gpc'.was
         /\ (/\ gpc.op = "enable2"
             /\ gpc.t = t
             /\ gpc.was
             /\ GEnable2) =>
               /\ done' = done
               /\ info' = info
         /\ (info[t] # NoInfo /\ info'[t] = NoInfo) =>
               /\ gpc.op = "enable_clear"
               /\ gpc.t = t
               /\ ~gpc.was
      ]_vars

\* an enable() is under way on a task that was enabled and holds info
C11_Witness ==
    /\ gpc.op = "enable2"
    /\ gpc.was
    /\ enabled[gpc.t]
    /\ ~done[gpc.t]
    /\ info[gpc.t] # NoInfo

\* C12: set_done() sets done and then clears enabled, and a set_done() of
\* the caller thread leaves the task done and not enabled; the eligibility
\* test of the task loop passes over a task that it reads done; the done
\* flag is cleared by nothing but line 49 of enable() and the enabled flag
\* is set by nothing but line 46 of enable(), so the task stays done, not
\* enabled and passed over until enable() is called on it; enable() sets
\* enabled and clears done.
C12_DoneSkipped ==
    [][\A t \in Tasks :
         /\ (gpc.op = "set_done2" /\ gpc.t = t /\ gpc' # gpc) =>
               /\ done'[t]
               /\ ~enabled'[t]
         /\ (idx = t /\ TaskSetDone) =>
               /\ done'[t]
               /\ pc' = "run_setdone"
         /\ (idx = t /\ TaskSetDone2) => ~enabled'[t]
         /\ (/\ pc = "ex_task"
             /\ idx = t
             /\ done[t]
             /\ <<pc, idx>>' # <<pc, idx>>) =>
               /\ pc' = "ex_task"
               /\ idx' = t + 1
               /\ running' = running
         /\ (done[t] /\ ~done'[t]) =>
               /\ gpc.op = "enable2"
               /\ gpc.t = t
         /\ (~enabled[t] /\ enabled'[t]) =>
               /\ gpc.op = "enable_set"
               /\ gpc.t = t
         /\ (gpc.op = "enable_set" /\ gpc.t = t /\ GEnableSet) => enabled'[t]
         /\ (gpc.op = "enable2" /\ gpc.t = t /\ GEnable2) => ~done'[t]
      ]_vars

\* a cycle with a frame comes to the first task, which set_done() has left
\* done and not enabled, while the second task is eligible
C12_Witness ==
    /\ pc = "ex_task"
    /\ idx = 1
    /\ frame # NoFrame
    /\ done[1] /\ ~enabled[1]
    /\ enabled[2] /\ ~done[2]
    /\ gpc = Idle

\* the order of the dispatches in a step: run_frame() is entered only by the
\* dispatch of the task at the loop index; the index goes up by one per
\* task from 1 in each cycle, so the tasks are taken in registration order
\* and each at most once; when the task loop is over current_task is none;
\* error_count changes only in the fault handler
C13_Order ==
       /\ (pc' = "ex_dispatch" /\ pc # pc') => pc = "ex_enabled"
       /\ Leaves("ex_dispatch") =>
            /\ pc' = "ex_running"
            /\ current_task' = idx
            /\ idx' = idx
       /\ Leaves("ex_running") =>
            /\ pc' = "run"
            /\ running'[idx]
            /\ idx' = idx
       /\ (pc' = "ex_running" /\ pc # pc') => pc = "ex_dispatch"
       /\ (~InRunFrame /\ InRunFrame') => pc = "ex_running"
       /\ (idx' # idx) =>
            \/ /\ idx' = idx + 1
               /\ pc \in {"ex_task", "ex_enabled", "ex_time", "ex_fresh"}
            \/ idx' = 1 /\ pc = "ex_detect"
            \/ idx' = 1 /\ pc = "ex_task" /\ idx > NumTasks
       /\ (pc \in {"ex_time", "ex_fresh"} /\ pc' = "ex_task") =>
            idx' = idx + 1
       /\ (pc = "ex_task" /\ idx > NumTasks) => current_task = NoTask
       /\ (error_count' # error_count) => pc = "ex_fault"

\* C13: run_frame() is invoked in registration order, at most once per
\* task and cycle, on exactly the tasks whose done flag the test of their
\* turn (line 167) read false and whose enabled flag it then read true;
\* when the task loop is over current_task is none; error_count changes
\* only in the fault handler.
C13_DispatchOrder ==
    [][/\ (pc = "ex_task" /\ idx <= NumTasks /\ <<pc, idx>>' # <<pc, idx>>) =>
            IF ~done[idx]
            THEN pc' = "ex_enabled" /\ idx' = idx /\ running' = running
            ELSE pc' = "ex_task" /\ idx' = idx + 1 /\ running' = running
       /\ Leaves("ex_enabled") =>
            IF enabled[idx]
            THEN pc' = "ex_dispatch" /\ idx' = idx /\ running' = running
            ELSE pc' = "ex_task" /\ idx' = idx + 1 /\ running' = running
       /\ C13_Order
      ]_vars

\* C13, read on the state of the task: run_frame() is invoked, in that
\* order, only on a task that has enabled = true and done = false when the
\* test of its turn is over.  A set_done() and the first write of an
\* enable() between the two reads of line 167 get a task dispatched while
\* it is done.
C13_DispatchState ==
    [][/\ (pc' = "ex_dispatch" /\ pc # pc') =>
            /\ enabled[idx]
            /\ ~done[idx]
       /\ C13_Order
      ]_vars

\* the first task, enabled, has run without a fault and its dispatch is
\* ending, the second task being not enabled
C13_Witness ==
    /\ pc = "ex_after"
    /\ idx = 1
    /\ running[1] /\ enabled[1]
    /\ current_task = 1
    /\ ~enabled[2]
    /\ error_count = [t \in Tasks |-> 0]

\* C14: detect_scene(scene_type) makes current a scene that is an instance
\* of scene_type, or none.
C14_TypeFilter ==
    [][\A scene_type \in SceneTypes :
         TaskDetectScene(scene_type) =>
             current_scene' \in scene_type \cup {NoScene}]_vars

\* the order of the tests of a poll of sleep(): the cancellation flag
\* first, and a set flag returns normally whatever the current task is;
\* then the current task, and a poll that reads it disabled does not return
\* normally, awake or not; then paused, should_capture() and the wake time,
\* each read once, in that order
C15_PollOrder ==
       /\ (pc' = "sl_time" /\ pc # pc') =>
            /\ pc = "sl_end"
            /\ sl_end' = pause_end_time
       /\ (pc' = "sl_end" /\ pc # pc') =>
            /\ pc = "sl_cap"
            /\ should_capture
       /\ (pc' = "sl_cap" /\ pc # pc') =>
            /\ pc = "sl_pause"
            /\ ~paused
       /\ (pc' = "sl_pause" /\ pc # pc') =>
            \/ pc = "sl_cur" /\ current_task = NoTask
            \/ pc = "sl_en" /\ enabled[sl_task]
       /\ (pc' = "sl_cur" /\ pc # pc') =>
            /\ pc = "sl_loop"
            /\ ~exit_event
       /\ (pc = "sl_loop" /\ exit_event /\ pc' # pc) =>
            /\ pc' = Head(stack)
            /\ stack' = Tail(stack)
       /\ (pc = "sl_en" /\ pc' # pc /\ ~enabled[sl_task]) =>
            pc' = "ex_disabled"

\* C15: sleep() returns normally only on a poll that found the
\* cancellation flag set, or that read the executor not paused, then
\* should_capture() true, then a wake time that has passed; on each poll it
\* tests cancellation first, then disablement of the current task, then
\* the wake condition, so a set cancellation flag wins over a disabled
\* current task.
C15_SleepReturn ==
    [][/\ SleepReturns =>
            \/ pc = "sl_loop" /\ exit_event
            \/ pc = "sl_time" /\ sl_end <= now
       /\ C15_PollOrder
      ]_vars

\* a sleep() called by run_frame() has returned to it on the exit test
\* while the current task was disabled
C15_Witness ==
    /\ pc = "run"
    /\ sl_phase = "exit_disabled"
    /\ exit_event

\* C15, read on the state of the return: sleep() returns normally only in a
\* state where the cancellation flag is set, or the wake time has passed,
\* the executor is not paused and should_capture() is true.  A pause()
\* between the read of `paused` (line 98) and the return (line 101) makes
\* sleep() return in a state where the executor is paused.
C15_ReturnState ==
    [][/\ SleepReturns =>
            \/ exit_event
            \/ /\ pause_end_time <= now
               /\ ~paused
               /\ should_capture
       /\ C15_PollOrder
      ]_vars

\* the executor thread is in the sleep(0.001) of next_frame() and can only
\* wait: the flag is not set and the wake test fails
C16_Waiting ==
    /\ pc \in SleepLabels
    /\ Head(stack) = "nf_tick"
    /\ ~exit_event
    /\ paused \/ ~should_capture

\* C16: a next_frame() that has not returned is not older than
\* wait_scene_timeout plus one tick, also while the executor is paused or
\* should_capture() is false; a cycle whose next_frame() gave no frame goes
\* straight to the next cycle, with no detection and no dispatch.
C16_NextFrameBounded ==
    /\ [](C16_Waiting => now - nf_start <= WaitSceneTimeout + 1)
    /\ [][(Leaves("ex_frame") /\ frame = NoFrame) =>
            /\ pc' = "ex_loop"
            /\ evaluated' = evaluated
            /\ current_scene' = current_scene
            /\ running' = running
            /\ current_task' = current_task]_vars

\* C17: when task.pause() is over the executor's paused gate and the task's
\* paused flag are true; when task.unpause() is over (its start() has
\* stored paused = False, or has returned False at line 117) both are
\* false.
C17_PauseFlags ==
    [][\A t \in Tasks :
         /\ GTaskPause(t) =>
               /\ paused'
               /\ tpaused'[t]
         /\ (gpc.op \in {"unpause2", "start4"} /\ gpc.t = t /\ gpc' = Idle) =>
               /\ ~paused'
               /\ ~tpaused'[t]
      ]_vars

\* C18: the cancellation flag, once set, stays set; a poll of sleep(),
\* next_frame() or wait_condition() that finds it set returns, paused or
\* not, capture permitted or not; execute() ends only with the flag set;
\* and once the flag is set execute() ends.
C18_StopTerminates ==
    /\ [][/\ exit_event => exit_event'
          /\ (pc = "sl_loop" /\ exit_event /\ pc' # pc) =>
               /\ pc' = Head(stack)
               /\ stack' = Tail(stack)
          /\ (pc \in {"nf_loop", "wc_loop"} /\ exit_event /\ pc' # pc) =>
               /\ pc' = Head(stack)
               /\ stack' = Tail(stack)
          /\ (pc' = "ex_done") => exit_event
         ]_vars
    /\ (exit_event ~> (pc = "ex_done"))

\* a sleep() of a task has returned on the exit test before its wake time,
\* the executor paused and the capture not permitted
C18_Witness ==
    /\ pc = "run"
    /\ sl_phase = "exit"
    /\ exit_event
    /\ pause_end_time > now
    /\ paused
    /\ ~should_capture

\* C19: when detect_scene() of the main loop finds no latest scene, or one
\* that does not match the frame, it makes current the first scene in
\* registration order, other than that one, whose detect() is true, and
\* evaluates no scene after it; when no scene matches, current_scene is
\* none and the cycle goes on.
C19_FirstMatch ==
    [][(/\ Leaves("ex_detect")
        /\ (latest_scene = NoScene \/ ~detect(latest_scene, frame))) =>
          LET others == {s \in Scenes \ {latest_scene} : detect(s, frame)} IN
          /\ pc' = "ex_task"
          /\ IF others = {}
             THEN current_scene' = NoScene
             ELSE /\ current_scene' \in others
                  /\ \A s \in others : current_scene' <= s
                  /\ \A s \in evaluated' :
                        s <= current_scene' \/ s = latest_scene
      ]_vars

\* with no latest scene and a frame that every scene matches, the first
\* scene was made current and the second was not evaluated
C19_Witness ==
    /\ pc = "ex_task"
    /\ idx = 1
    /\ frame = Scenes
    /\ last_scene = NoScene
    /\ current_scene = 1
    /\ evaluated = {1}

\* C20: disable() on a task sets its enabled flag to false, and clears
\* current_task only when current_task is that task.
C20_DisableOwnOnly ==
    [][\A t \in Tasks :
         /\ GDisable(t) => ~enabled'[t]
         /\ (gpc.op = "disable2" /\ gpc.t = t /\ GDisable2) =>
               current_task' = IF current_task = t THEN NoTask
                               ELSE current_task
      ]_vars

\* C21: no task goes from running = false to running = true in a state
\* where the executor's paused gate is true.
C21_NoDispatchPaused ==
    [][\A t \in Tasks : (~running[t] /\ running'[t]) => ~paused]_vars

\* C22: when a task is dispatched the executor holds a frame, and
\* current_scene is what detect_scene() gives on that frame: a scene that
\* matches it, or none when no scene matches it.
C22_FrameAndScene ==
    [][Leaves("ex_dispatch") =>
         /\ frame # NoFrame
         /\ IF \E s \in Scenes : detect(s, frame)
            THEN current_scene # NoScene /\ detect(current_scene, frame)
            ELSE current_scene = NoScene
      ]_vars
=============================================================================
